---- MODULE Spec2Model ----
(***************************************************************************)
(* A model of the acoustic modem core of the repository:                   *)
(*   src/frequency_hopping.py      FrequencyHopper (key-derived hop table)  *)
(*   src/ultrasonic_compression.py UltrasonicOFDM  (multi-carrier QAM)      *)
(*                                                                         *)
(*   src/ultrasonic_message_queue.py MessageQueue, UltrasonicMessenger      *)
(*                                                                         *)
(* Frequencies of the hopper are integers (Hz).  Python exceptions are      *)
(* modelled by their class name as the outcome of the call that raises.     *)
(***************************************************************************)
EXTENDS Integers, Sequences, FiniteSets, TLC

VARIABLES hopper, lookup, enc, calls, work,
          messages, now, messenger, transmitted

\* The state of the two codecs, and the state of the message queue.
codec_vars == <<hopper, lookup, enc, calls, work>>
queue_vars == <<messages, now, messenger, transmitted>>

vars == <<hopper, lookup, enc, calls, work, messages, now, messenger, transmitted>>

(***************************************************************************)
(* Bounds of the model.                                                    *)
(***************************************************************************)
MaxKeyLen == 2
MaxHopIndex == 11
MaxCarriers == 3
MaxDataLen == 2
MaxSymbols == 2

\* Constants of src/ultrasonic_compression.py.
SAMPLE_RATE == 192000
OFDM_MIN_FREQ == 25000
OFDM_MAX_FREQ == 45000
OFDM_BANDWIDTH == OFDM_MAX_FREQ - OFDM_MIN_FREQ
OFDM_NUM_CARRIERS == 64

\* Symbol timing, in ticks of 100 microseconds: SYMBOL_DURATION = 0.001 s,
\* GUARD_INTERVAL = 0.0002 s.
TICKS_PER_SECOND == 10000
SYMBOL_DURATION == 10
GUARD_INTERVAL == 2

KeyBytes == {1, 2}

Min(a, b) == IF a < b THEN a ELSE b

Max(a, b) == IF a > b THEN a ELSE b

RECURSIVE SeqsUpTo(_, _)
SeqsUpTo(S, n) ==
    IF n = 0 THEN {<<>>}
    ELSE LET shorter == SeqsUpTo(S, n - 1)
         IN  shorter \cup {Append(s, x) : s \in {t \in shorter : Len(t) = n - 1}, x \in S}

Keys == SeqsUpTo(KeyBytes, MaxKeyLen)

\* What a caller passes as secret_key: None, or a byte sequence of any length.
KeyArgs == {[none |-> TRUE, bytes |-> <<>>]} \cup {[none |-> FALSE, bytes |-> k] : k \in Keys}

\* secrets.token_bytes(32): a fresh key of full length, chosen by the system.
TokenBytes == {k \in Keys : Len(k) = MaxKeyLen}

\* (hop_range, hop_spacing_hz) pairs a caller constructs a hopper with.
HopConfigs ==
    { [hop_range |-> <<20000, 40000>>, hop_spacing |-> 100],
      [hop_range |-> <<100, 50>>,      hop_spacing |-> 100],
      [hop_range |-> <<100, 50>>,      hop_spacing |-> -25],
      [hop_range |-> <<100, 104>>,     hop_spacing |-> 0],
      [hop_range |-> <<100, 104>>,     hop_spacing |-> 1],
      [hop_range |-> <<100, 104>>,     hop_spacing |-> 25],
      [hop_range |-> <<100, 110>>,     hop_spacing |-> 1],
      [hop_range |-> <<100, 357>>,     hop_spacing |-> 1] }

HopSampleRates == {192000, 300}

\* Grids two keys are compared on: the default grid of __init__ (200
\* channels) and a valid grid of one channel, int((104 - 100) / 3) = 1.
PairConfigs ==
    { [hop_range |-> <<20000, 40000>>, hop_spacing |-> 100],
      [hop_range |-> <<100, 104>>,     hop_spacing |-> 3] }

\* dwell_time_ms: the default of __init__, and a dwell of one millisecond.
DWELL_TIME_MS == 10
DwellTimesMs == {DWELL_TIME_MS, 1}

\* (frequency, amplitude, phase) tuples of a message.
TxSymbols == { [freq |-> 0,     amplitude |-> 1, phase |-> 0],
               [freq |-> 25000, amplitude |-> 1, phase |-> 0] }

Messages == SeqsUpTo(TxSymbols, MaxSymbols)

\* Concept names of a transmission: one of the table, one it does not hold.
Concepts == {"question", "zzz"}

\* Modulating frequencies of the windows a receiver is handed.
RxFreqs == {25000, 26000}

\* Hop indices a transmission starts at, and a receiver decodes at.
StartHops == {0, MaxHopIndex}

Instances == {1, 2}

\* Byte values of the payloads: 0x00, and 0xB5 = 10110101.
DataBytes == {0, 181}

Payloads == SeqsUpTo(DataBytes, MaxDataLen)

\* Modulation names a caller asks for; "8PSK" is not a key of QAM_LEVELS.
ModulationNames == {"BPSK", "QPSK", "16QAM", "64QAM", "8PSK"}

OfdmSampleRates == {SAMPLE_RATE, 50000}

(***************************************************************************)
(* Python arithmetic.                                                      *)
(***************************************************************************)
Abs(x) == IF x < 0 THEN -x ELSE x

\* int(a / b) for b # 0: the quotient truncated toward zero.
IntDiv(a, b) ==
    IF (a >= 0) = (b > 0) THEN Abs(a) \div Abs(b) ELSE -(Abs(a) \div Abs(b))

\* The set of elements of a sequence.
Range(s) == {s[j] : j \in 1..Len(s)}

(***************************************************************************)
(* hashlib.sha256(msg).digest().  The digest is modelled by a small         *)
(* deterministic mixing function with a fixed-length output: the hopper     *)
(* uses the digest only as a deterministic function of its input bytes.     *)
(***************************************************************************)
RECURSIVE Absorb(_, _)
Absorb(s, msg) ==
    IF msg = <<>> THEN s
    ELSE Absorb((s * 33 + Head(msg) + 1) % 65521, Tail(msg))

\* A digest that does not depend on its input.
Sha256Constant(msg) == <<0, 0, 0, 0, 0, 0>>

Sha256(msg) ==
    LET s == Absorb(5381, msg)
    IN  << (s \div 256) % 256, s % 256, (s \div 16) % 256,
           (s * 7 + 3) % 256, (s \div 4) % 256, (s * 13 + 1) % 256 >>

\* int.from_bytes(b, 'big') % n, reduced byte by byte (Horner) to stay small.
RECURSIVE FromBytesBigMod(_, _, _)
FromBytesBigMod(b, n, acc) ==
    IF b = <<>> THEN acc
    ELSE FromBytesBigMod(Tail(b), n, (acc * 256 + Head(b)) % n)

\* int.from_bytes(rng_state[:4], 'big') % len(remaining)
NextIndex(rng_state, remaining) ==
    FromBytesBigMod(SubSeq(rng_state, 1, 4), Len(remaining), 0)

\* remaining.pop() in place of remaining.pop(idx): drops the last element.
PopLast(remaining, idx) == SubSeq(remaining, 1, Len(remaining) - 1)

\* remaining.pop(idx) leaves the list without its element at idx (0-based).
PopAt(remaining, idx) ==
    SubSeq(remaining, 1, idx) \o SubSeq(remaining, idx + 2, Len(remaining))

\* The log of calls keeps the last two.
Logged(call) == IF calls = <<>> THEN <<call>> ELSE <<calls[Len(calls)], call>>

(***************************************************************************)
(* FrequencyHopper                                                         *)
(***************************************************************************)
NoHopper ==
    [ status |-> "none", arg_key |-> [none |-> TRUE, bytes |-> <<>>],
      secret_key |-> <<>>, hop_range |-> <<0, 0>>, hop_spacing |-> 0,
      dwell_time_ms |-> 0, sample_rate |-> 0, frequencies |-> <<>>, remaining |-> <<>>,
      shuffled |-> <<>>, rng_state |-> <<>>, i |-> 0,
      hop_frequencies |-> <<>>, hop_count |-> 0 ]

NoLookup == [outcome |-> "none", inst |-> 0, hop_index |-> 0, index |-> 0, freq |-> 0]

\* `secret_key or secrets.token_bytes(32)`: None and b"" are both falsy.
KeyIsFalsy(key) == key.none \/ key.bytes = <<>>

\* num_channels = int((max_freq - min_freq) / self.hop_spacing)
NumChannels(hop_range, spacing) == IntDiv(hop_range[2] - hop_range[1], spacing)

\* [min_freq + i * self.hop_spacing for i in range(num_channels)]
FrequencyGrid(hop_range, spacing) ==
    LET n == NumChannels(hop_range, spacing)
    IN  [j \in 1..(IF n > 0 THEN n ELSE 0) |-> hop_range[1] + (j - 1) * spacing]

\* No call is executing: __init__ is a synchronous call.
Idle == \A k \in Instances : hopper[k].status # "gen"

\* __init__ up to the entry of the shuffle loop of _generate_hop_table.
InitHopper(k, key, cfg, dwell_time_ms, rate, token) ==
    LET sk == IF KeyIsFalsy(key) THEN token ELSE key.bytes
        base == [NoHopper EXCEPT !.arg_key = key, !.secret_key = sk,
                                 !.hop_range = cfg.hop_range,
                                 !.hop_spacing = cfg.hop_spacing,
                                 !.dwell_time_ms = dwell_time_ms,
                                 !.sample_rate = rate]
    IN  IF cfg.hop_spacing = 0
        THEN hopper' = [hopper EXCEPT ![k] = [base EXCEPT !.status = "ZeroDivisionError"]]
        ELSE LET grid == FrequencyGrid(cfg.hop_range, cfg.hop_spacing)
             IN  hopper' = [hopper EXCEPT ![k] =
                     [base EXCEPT !.status = "gen", !.frequencies = grid,
                                  !.remaining = grid, !.shuffled = <<>>,
                                  !.rng_state = Sha256(sk), !.i = 0]]

\* FrequencyHopper(secret_key, hop_range, dwell_time_ms, hop_spacing_hz, sample_rate)
Construct(key, cfg, dwell_time_ms, rate) ==
    /\ Idle
    /\ hopper[1].status = "none"
    /\ \E token \in TokenBytes : InitHopper(1, key, cfg, dwell_time_ms, rate, token)
    /\ UNCHANGED <<lookup, enc, calls, work, queue_vars>>

\* A second, independent instance built from the same arguments (the
\* cooperating decoder's hopper), built at session start before any lookup.
ConstructPeer ==
    /\ Idle
    /\ hopper[1].status \notin {"none", "gen"}
    /\ hopper[2].status = "none"
    /\ lookup.outcome = "none"
    /\ \E token \in TokenBytes :
          InitHopper(2, hopper[1].arg_key,
                     [hop_range |-> hopper[1].hop_range,
                      hop_spacing |-> hopper[1].hop_spacing],
                     hopper[1].dwell_time_ms, hopper[1].sample_rate, token)
    /\ UNCHANGED <<lookup, enc, calls, work, queue_vars>>

\* A second instance built on the grid of the first with a key of its own, as
\* the key comparison of the module's demo builds hopper2 next to hopper1.
ConstructOther(key) ==
    /\ Idle
    /\ hopper[1].status = "ready"
    /\ hopper[2].status = "none"
    /\ \E token \in TokenBytes :
          InitHopper(2, key,
                     [hop_range |-> hopper[1].hop_range,
                      hop_spacing |-> hopper[1].hop_spacing],
                     hopper[1].dwell_time_ms, hopper[1].sample_rate, token)
    /\ UNCHANGED <<lookup, enc, calls, work, queue_vars>>

\* One iteration of `for i in range(len(frequencies))` with i < 256.
GenStep(k) ==
    LET h == hopper[k] IN
    /\ h.status = "gen"
    /\ h.i < Len(h.frequencies)
    /\ h.i < 256
    /\ LET state == Sha256(h.rng_state \o <<h.i>>)
           idx == NextIndex(state, h.remaining)
       IN  hopper' = [hopper EXCEPT ![k] =
               [h EXCEPT !.rng_state = state,
                         !.shuffled = Append(h.shuffled, h.remaining[idx + 1]),
                         !.remaining = PopAt(h.remaining, idx),
                         !.i = h.i + 1]]
    /\ UNCHANGED <<lookup, enc, calls, work, queue_vars>>

\* bytes([i]) raises ValueError for i >= 256; __init__ propagates it.
GenByteError(k) ==
    LET h == hopper[k] IN
    /\ h.status = "gen"
    /\ h.i < Len(h.frequencies)
    /\ h.i >= 256
    /\ hopper' = [hopper EXCEPT ![k] = [h EXCEPT !.status = "ValueError"]]
    /\ UNCHANGED <<lookup, enc, calls, work, queue_vars>>

\* `return shuffled`, then hop_frequencies and hop_count are set.
GenReturn(k) ==
    LET h == hopper[k] IN
    /\ h.status = "gen"
    /\ h.i = Len(h.frequencies)
    /\ hopper' = [hopper EXCEPT ![k] =
           [h EXCEPT !.status = "ready", !.hop_frequencies = h.shuffled,
                     !.hop_count = Len(h.shuffled)]]
    /\ UNCHANGED <<lookup, enc, calls, work, queue_vars>>

\* hop_index used as the slot, without the modulo.
HopSlotNoWrap(hop_index, hop_count) == hop_index

\* (hop_index + 1) % hop_count: an off-by-one slot.
HopSlotOffByOne(hop_index, hop_count) == (hop_index + 1) % hop_count

\* The 0-based index _get_hop_freq reads: hop_index % self.hop_count.
HopSlot(hop_index, hop_count) == hop_index % hop_count

\* _get_hop_freq(hop_index) on instance k.
GetHopFreq(k, hop_index) ==
    LET h == hopper[k] IN
    /\ Idle
    /\ h.status = "ready"
    /\ IF h.hop_count = 0
       THEN lookup' = [NoLookup EXCEPT !.outcome = "ZeroDivisionError", !.inst = k,
                                       !.hop_index = hop_index]
       ELSE LET slot == HopSlot(hop_index, h.hop_count)
            IN  IF slot >= Len(h.hop_frequencies)
                THEN lookup' = [NoLookup EXCEPT !.outcome = "IndexError", !.inst = k,
                                                !.hop_index = hop_index, !.index = slot]
                ELSE lookup' = [outcome |-> "ok", inst |-> k, hop_index |-> hop_index,
                                index |-> slot, freq |-> h.hop_frequencies[slot + 1]]
    /\ UNCHANGED <<hopper, enc, calls, work, queue_vars>>

(***************************************************************************)
(* Hopped symbols.  A dwell window is described by what determines its     *)
(* samples: the carrier, the symbol modulated on it and the number of      *)
(* samples; the sample values themselves are not computed.                 *)
(***************************************************************************)

\* num_samples = int(self.sample_rate * self.dwell_time_sec), with
\* dwell_time_sec = dwell_time_ms / 1000.0
DwellSamples(h) == (h.sample_rate * h.dwell_time_ms) \div 1000

NoWindow == [carrier |-> 0, freq |-> 0, amplitude |-> 0, phase |-> 0, num_samples |-> 0]

\* carrier_freq = self._get_hop_freq(hop_index) of hopper h, or its exception.
CarrierAt(h, hop_index) ==
    IF h.hop_count = 0 THEN [outcome |-> "ZeroDivisionError", freq |-> 0]
    ELSE IF HopSlot(hop_index, h.hop_count) >= Len(h.hop_frequencies)
    THEN [outcome |-> "IndexError", freq |-> 0]
    ELSE [outcome |-> "ok", freq |-> h.hop_frequencies[HopSlot(hop_index, h.hop_count) + 1]]

\* encode_symbol(symbol_freq, amplitude, phase, hop_index) of hopper h.  The
\* loop body divides by symbol_freq.
EncodeSymbol(h, symbol, hop_index) ==
    LET carrier == CarrierAt(h, hop_index)
    IN  IF carrier.outcome # "ok"
        THEN [outcome |-> carrier.outcome, window |-> NoWindow]
        ELSE IF DwellSamples(h) > 0 /\ symbol.freq = 0
        THEN [outcome |-> "ZeroDivisionError", window |-> NoWindow]
        ELSE [outcome |-> "ok",
              window |-> [carrier |-> carrier.freq,
                          freq |-> symbol.freq, amplitude |-> symbol.amplitude,
                          phase |-> symbol.phase, num_samples |-> DwellSamples(h)]]

\* The hop index kept from one symbol to the next: no hop.
HopIdxHeld(hop_idx) == hop_idx

\* hop_idx += 1
NextHopIdx(hop_idx) == hop_idx + 1

\* The loop of encode_message from symbol number `from` on: the windows
\* appended to all_samples and the value of hop_idx, or the exception of the
\* first encode_symbol that raises.
RECURSIVE EncodeWindows(_, _, _, _)
EncodeWindows(h, symbols, from, hop_idx) ==
    IF from > Len(symbols)
    THEN [outcome |-> "ok", windows |-> <<>>, hop_idx |-> hop_idx]
    ELSE LET first == EncodeSymbol(h, symbols[from], hop_idx)
         IN  IF first.outcome # "ok"
             THEN [outcome |-> first.outcome, windows |-> <<>>, hop_idx |-> hop_idx]
             ELSE LET rest == EncodeWindows(h, symbols, from + 1, NextHopIdx(hop_idx))
                  IN  [outcome |-> rest.outcome,
                       windows |-> IF rest.outcome = "ok"
                                   THEN <<first.window>> \o rest.windows ELSE <<>>,
                       hop_idx |-> rest.hop_idx]

\* len(all_samples): the windows are appended one after the other.
RECURSIVE TotalSamples(_)
TotalSamples(windows) ==
    IF windows = <<>> THEN 0 ELSE Head(windows).num_samples + TotalSamples(Tail(windows))

\* hopper.encode_message(symbols, start_hop_index): the log holds this call.
EncodeMessage(symbols, start_hop_index) ==
    LET h == hopper[1]
        r == EncodeWindows(h, symbols, 1, start_hop_index)
    IN  /\ h.status = "ready"
        /\ calls' =
             <<[op |-> "encode_message", outcome |-> r.outcome, symbols |-> symbols,
                start_hop_index |-> start_hop_index, windows |-> r.windows,
                num_out_samples |-> TotalSamples(r.windows),
                metadata |-> IF r.outcome = "ok"
                             THEN [num_symbols |-> Len(symbols),
                                   start_hop |-> start_hop_index,
                                   end_hop |-> r.hop_idx,
                                   hops_used |-> r.hop_idx - start_hop_index]
                             ELSE [num_symbols |-> 0, start_hop |-> 0, end_hop |-> 0,
                                   hops_used |-> 0]]>>
        /\ UNCHANGED <<hopper, lookup, enc, work, queue_vars>>

\* `window = 50`: the length of the moving average of decode_symbol.
AVERAGING_WINDOW == 50

\* A window cut to its first num_samples samples (samples[:num_samples]).
Truncated(window, num_samples) ==
    [window EXCEPT !.num_samples = Min(window.num_samples, num_samples)]

\* Sample windows handed to decode_symbol at hop_index: the dwell windows
\* encode_symbol makes at that hop for two modulating frequencies, the same
\* windows cut to one sample less than the averaging window, a window of
\* zeros, and the window of no samples.
RxWindows(h, hop_index) ==
    LET encoded == {EncodeSymbol(h, [freq |-> f, amplitude |-> 1, phase |-> 0], hop_index) :
                       f \in RxFreqs}
        dwell == {e.window : e \in {x \in encoded : x.outcome = "ok"}}
    IN  dwell \cup {Truncated(w, AVERAGING_WINDOW - 1) : w \in dwell}
              \cup {[NoWindow EXCEPT !.num_samples = AVERAGING_WINDOW], NoWindow}

\* Every sample of the window is 0.0.
AllZero(window) == window.num_samples = 0 \/ window.amplitude = 0

\* sum(i_samples[:window]) / window if len(i_samples) >= window else 0, and
\* the same for q_samples: 0 for a short window or for samples that are all
\* zero, else the average the samples give.
LowPass(window) ==
    IF window.num_samples >= AVERAGING_WINDOW /\ ~AllZero(window) THEN "measured" ELSE "zero"

\* hopper.decode_symbol(samples, hop_index) -> (recovered_freq, amplitude, phase).
\* amplitude = sqrt(i_filtered**2 + q_filtered**2) and phase =
\* atan2(q_filtered, i_filtered) are 0.0 when the filtered values are 0;
\* `recovered_freq = carrier_freq`.
DecodeSymbol(window, hop_index) ==
    LET h == hopper[1]
        carrier == CarrierAt(h, hop_index)
    IN  /\ h.status = "ready"
        /\ calls' = Logged(
              IF carrier.outcome # "ok"
              THEN [op |-> "decode_symbol", outcome |-> carrier.outcome, window |-> window,
                    hop_index |-> hop_index, recovered_freq |-> 0,
                    amplitude |-> "zero", phase |-> "zero"]
              ELSE [op |-> "decode_symbol", outcome |-> "ok", window |-> window,
                    hop_index |-> hop_index, recovered_freq |-> carrier.freq,
                    amplitude |-> LowPass(window), phase |-> LowPass(window)])
        /\ UNCHANGED <<hopper, lookup, enc, work, queue_vars>>

(***************************************************************************)
(* Key exchange.  A hex string is the sequence of its characters.          *)
(***************************************************************************)
HexDigits == <<"0", "1", "2", "3", "4", "5", "6", "7",
               "8", "9", "a", "b", "c", "d", "e", "f">>

\* format(byte, "x"): the hex digits of a byte without a leading zero.
ByteHexUnpadded(byte) ==
    IF byte < 16 THEN <<HexDigits[byte + 1]>>
    ELSE <<HexDigits[(byte \div 16) + 1], HexDigits[(byte % 16) + 1]>>

\* The two hex digits bytes.hex() writes for a byte.
ByteHex(byte) == <<HexDigits[(byte \div 16) + 1], HexDigits[(byte % 16) + 1]>>

\* self.secret_key.hex()
RECURSIVE ToHex(_)
ToHex(bytes) == IF bytes = <<>> THEN <<>> ELSE ByteHex(Head(bytes)) \o ToHex(Tail(bytes))

\* The value of a hex digit.
HexValue(digit) == CHOOSE v \in 0..15 : HexDigits[v + 1] = digit

\* The bytes of an even number of hex digits, two digits per byte.
RECURSIVE PairsToBytes(_)
PairsToBytes(hex) ==
    IF hex = <<>> THEN <<>>
    ELSE <<16 * HexValue(hex[1]) + HexValue(hex[2])>> \o PairsToBytes(SubSeq(hex, 3, Len(hex)))

\* bytes.fromhex(key_hex): a ValueError for an odd number of digits.
FromHex(hex) ==
    IF Len(hex) % 2 # 0 THEN [outcome |-> "ValueError", bytes |-> <<>>]
    ELSE [outcome |-> "ok", bytes |-> PairsToBytes(hex)]

\* export_key that clears self.secret_key once the hex string is made.
ExportKeyWiping ==
    /\ \A k \in Instances : hopper[k].status # "gen"
    /\ hopper[1].status = "ready"
    /\ calls' = Logged([op |-> "export_key", key_hex |-> ToHex(hopper[1].secret_key)])
    /\ hopper' = [hopper EXCEPT ![1].secret_key = <<>>]
    /\ UNCHANGED <<lookup, enc, work, queue_vars>>

\* hopper.export_key() on the first instance.
ExportKey ==
    /\ Idle
    /\ hopper[1].status = "ready"
    /\ calls' = Logged([op |-> "export_key", key_hex |-> ToHex(hopper[1].secret_key)])
    /\ UNCHANGED <<hopper, lookup, enc, work, queue_vars>>

\* FrequencyHopper.import_key(key_hex) on the string the last export gave.
ImportKey ==
    /\ Idle
    /\ calls # <<>>
    /\ calls[Len(calls)].op = "export_key"
    /\ LET key_hex == calls[Len(calls)].key_hex
           r == FromHex(key_hex)
       IN  calls' = Logged([op |-> "import_key", key_hex |-> key_hex,
                            outcome |-> r.outcome, key |-> r.bytes])
    /\ UNCHANGED <<hopper, lookup, enc, work, queue_vars>>

\* The cooperating side: FrequencyHopper(secret_key=<imported key>, ...) with
\* the grid configuration of the exporter.
ConstructImported ==
    /\ Idle
    /\ hopper[1].status = "ready"
    /\ hopper[2].status = "none"
    /\ calls # <<>>
    /\ calls[Len(calls)].op = "import_key"
    /\ calls[Len(calls)].outcome = "ok"
    /\ \E token \in TokenBytes :
          InitHopper(2, [none |-> FALSE, bytes |-> calls[Len(calls)].key],
                     [hop_range |-> hopper[1].hop_range,
                      hop_spacing |-> hopper[1].hop_spacing],
                     hopper[1].dwell_time_ms, hopper[1].sample_rate, token)
    /\ UNCHANGED <<lookup, enc, calls, work, queue_vars>>

\* hopper.encode_symbol(symbol_freq, amplitude, phase, hop_index), called on
\* its own: the log holds this call.
EncodeSymbolCall(symbol, hop_index) ==
    LET r == EncodeSymbol(hopper[1], symbol, hop_index)
    IN  /\ hopper[1].status = "ready"
        /\ calls' = <<[op |-> "encode_symbol", outcome |-> r.outcome, symbol |-> symbol,
                       hop_index |-> hop_index, window |-> r.window]>>
        /\ UNCHANGED <<hopper, lookup, enc, work, queue_vars>>

\* get_ultrasonic_frequency(concept) = ULTRASONIC_BASE_FREQ * ratio, the ratio
\* being 1.5 for "question" and 1.0 for a name the table does not hold.
ULTRASONIC_BASE_FREQ == 25000
ConceptFrequency(concept) ==
    IF concept = "question" THEN (3 * ULTRASONIC_BASE_FREQ) \div 2 ELSE ULTRASONIC_BASE_FREQ

\* channel.transmit_concepts(concepts) of a SecureUltrasonicChannel whose
\* hopper is the first instance: confidences default to 1.0, phases to 0.0,
\* and self.hopper.encode_message(symbols) starts at hop 0.
TransmitConcepts(concepts) ==
    LET h == hopper[1]
        symbols == [i \in 1..Len(concepts) |->
                       [freq |-> ConceptFrequency(concepts[i]), amplitude |-> 1, phase |-> 0]]
        r == EncodeWindows(h, symbols, 1, 0)
    IN  /\ h.status = "ready"
        /\ calls' = <<[op |-> "transmit_concepts", outcome |-> r.outcome,
                       concepts |-> concepts, windows |-> r.windows,
                       num_out_samples |-> TotalSamples(r.windows)]>>
        /\ UNCHANGED <<hopper, lookup, enc, work, queue_vars>>

(***************************************************************************)
(* Specification of the hopper.                                            *)
(***************************************************************************)
\* The two messengers of the module's demo, sharing one queue.
Messengers == {1, 2}

\* A messenger outside process_queue.
Waiting == [pc |-> "idle", message |-> 0]

\* No encode in progress.
NoWork == [codec |-> "none"]

NoEncoder == [status |-> "none"]

Init ==
    /\ hopper = [k \in Instances |-> NoHopper]
    /\ lookup = NoLookup
    /\ enc = NoEncoder
    /\ calls = <<>>
    /\ work = NoWork
    /\ messages = <<>>
    /\ now = 1
    /\ messenger = [p \in Messengers |-> Waiting]
    /\ transmitted = <<>>

NextHop ==
    \/ \E key \in KeyArgs, cfg \in HopConfigs, rate \in HopSampleRates :
          Construct(key, cfg, DWELL_TIME_MS, rate)
    \/ ConstructPeer
    \/ \E k \in Instances : GenStep(k)
    \/ \E k \in Instances : GenByteError(k)
    \/ \E k \in Instances : GenReturn(k)
    \/ \E k \in Instances, hop_index \in 0..MaxHopIndex : GetHopFreq(k, hop_index)

SpecHop == Init /\ [][NextHop]_vars

\* Two hoppers on one grid, each with its key.  No grid of PairConfigs has
\* more than 256 channels: no construction raises.
NextPair ==
    \/ \E key \in KeyArgs, cfg \in PairConfigs : Construct(key, cfg, DWELL_TIME_MS, SAMPLE_RATE)
    \/ \E key \in KeyArgs : ConstructOther(key)
    \/ \E k \in Instances : GenStep(k)
    \/ \E k \in Instances : GenReturn(k)

SpecPair == Init /\ [][NextPair]_vars

\* The transmitter: a hopper and its encode_message calls.
NextTx ==
    \/ \E key \in KeyArgs, cfg \in HopConfigs, dwell_time_ms \in DwellTimesMs,
          rate \in HopSampleRates : Construct(key, cfg, dwell_time_ms, rate)
    \/ GenStep(1)
    \/ GenByteError(1)
    \/ GenReturn(1)
    \/ \E symbols \in Messages, start_hop_index \in StartHops :
          EncodeMessage(symbols, start_hop_index)

SpecTx == Init /\ [][NextTx]_vars

\* The receiver: a hopper and its decode_symbol calls.
NextRx ==
    \/ \E key \in KeyArgs, cfg \in HopConfigs, rate \in HopSampleRates :
          Construct(key, cfg, DWELL_TIME_MS, rate)
    \/ GenStep(1)
    \/ GenByteError(1)
    \/ GenReturn(1)
    \/ \E hop_index \in StartHops : \E window \in RxWindows(hopper[1], hop_index) :
          DecodeSymbol(window, hop_index)

SpecRx == Init /\ [][NextRx]_vars

\* The key exchange: a hopper, its exported key, and the hopper of the
\* cooperating side built from the imported key.
NextKey ==
    \/ \E key \in KeyArgs, cfg \in HopConfigs, rate \in HopSampleRates :
          Construct(key, cfg, DWELL_TIME_MS, rate)
    \/ \E k \in Instances : GenStep(k)
    \/ \E k \in Instances : GenByteError(k)
    \/ \E k \in Instances : GenReturn(k)
    \/ ExportKey
    \/ ImportKey
    \/ ConstructImported

SpecKey == Init /\ [][NextKey]_vars

(***************************************************************************)
(* UltrasonicOFDM.  Carrier frequencies are kept in half-hertz units, so    *)
(* the 312.5 Hz spacing is the integer 625.  A constellation point (I, Q)   *)
(* is the pair of fractions i/den, q/den.                                   *)
(***************************************************************************)

\* OFDM_CARRIER_SPACING = OFDM_BANDWIDTH / OFDM_NUM_CARRIERS, in half-hertz.
OFDM_CARRIER_SPACING_HALF_HZ == (2 * OFDM_BANDWIDTH) \div OFDM_NUM_CARRIERS

QAM_LEVELS == ("BPSK" :> 2) @@ ("QPSK" :> 4) @@ ("16QAM" :> 16) @@ ("64QAM" :> 64)

RECURSIVE Pow2(_)
Pow2(n) == IF n = 0 THEN 1 ELSE 2 * Pow2(n - 1)

\* int(math.log2(x)) for x >= 1
RECURSIVE Log2(_)
Log2(x) == IF x < 2 THEN 0 ELSE 1 + Log2(x \div 2)

\* [OFDM_MIN_FREQ + i * OFDM_CARRIER_SPACING for i in range(num_carriers)]
CarrierFreqs(num_carriers) ==
    [c \in 1..num_carriers |-> 2 * OFDM_MIN_FREQ + (c - 1) * OFDM_CARRIER_SPACING_HALF_HZ]

\* What __init__ tells the caller once the encoder is set up: the lines it
\* prints.  It raises no warning and sets no attribute besides sample_rate,
\* num_carriers, modulation, bits_per_symbol and carrier_freqs.
InitReport == {"OFDM Encoder initialized", "Carriers", "Bandwidth", "Modulation",
               "Symbol rate", "Theoretical bitrate"}

\* QAM_LEVELS.get(modulation, 2) in place of QAM_LEVELS[modulation].
NewEncoderWithDefault(sample_rate, num_carriers, modulation) ==
    [ status |-> "ready", sample_rate |-> sample_rate, num_carriers |-> num_carriers,
      modulation |-> modulation,
      bits_per_symbol |-> IF modulation \in DOMAIN QAM_LEVELS
                          THEN Log2(QAM_LEVELS[modulation]) ELSE 1,
      carrier_freqs |-> CarrierFreqs(num_carriers), printed |-> InitReport ]

\* UltrasonicOFDM.__init__: the object, or the KeyError of QAM_LEVELS[modulation].
NewEncoder(sample_rate, num_carriers, modulation) ==
    IF modulation \notin DOMAIN QAM_LEVELS
    THEN [ status |-> "KeyError", sample_rate |-> sample_rate,
           num_carriers |-> num_carriers, modulation |-> modulation,
           bits_per_symbol |-> 0, carrier_freqs |-> <<>>, printed |-> {} ]
    ELSE [ status |-> "ready", sample_rate |-> sample_rate,
           num_carriers |-> num_carriers, modulation |-> modulation,
           bits_per_symbol |-> Log2(QAM_LEVELS[modulation]),
           carrier_freqs |-> CarrierFreqs(num_carriers), printed |-> InitReport ]

\* for byte in data: for i in range(8): bits.append((byte >> i) & 1)
RECURSIVE BytesToBits(_)
BytesToBits(data) ==
    IF data = <<>> THEN <<>>
    ELSE [j \in 1..8 |-> (Head(data) \div Pow2(j - 1)) % 2] \o BytesToBits(Tail(data))

\* while len(bits) % bits_per_ofdm_symbol != 0: bits.append(0)
RECURSIVE PadBits(_, _)
PadBits(bits, bits_per_ofdm_symbol) ==
    IF Len(bits) % bits_per_ofdm_symbol = 0 THEN bits
    ELSE PadBits(Append(bits, 0), bits_per_ofdm_symbol)

\* sum(b << (n - 1 - i) ...): the first bit taken as the most significant.
RECURSIVE SymbolValueMsbFirst(_)
SymbolValueMsbFirst(symbol_bits) ==
    IF symbol_bits = <<>> THEN 0
    ELSE Head(symbol_bits) * Pow2(Len(symbol_bits) - 1) + SymbolValueMsbFirst(Tail(symbol_bits))

\* sum(b << i for i, b in enumerate(symbol_bits))
RECURSIVE SymbolValue(_)
SymbolValue(symbol_bits) ==
    IF symbol_bits = <<>> THEN 0
    ELSE Head(symbol_bits) + 2 * SymbolValue(Tail(symbol_bits))

\* _bytes_to_symbols for num_carriers * bits_per_symbol > 0: the list of OFDM
\* symbols, each the list of its carriers' symbol values.
BytesToSymbols(data, num_carriers, bits_per_symbol) ==
    LET bits_per_ofdm_symbol == bits_per_symbol * num_carriers
        bits == PadBits(BytesToBits(data), bits_per_ofdm_symbol)
    IN  [f \in 1..(Len(bits) \div bits_per_ofdm_symbol) |->
            [c \in 1..num_carriers |->
                LET bit_start == (f - 1) * bits_per_ofdm_symbol + (c - 1) * bits_per_symbol
                IN  SymbolValue(SubSeq(bits, bit_start + 1, bit_start + bits_per_symbol))]]

\* math.cos / math.sin of the four QPSK angles, in units of 1/10000.
CosDeg(angle) == IF angle \in {45, 315} THEN 7071 ELSE -7071
SinDeg(angle) == IF angle \in {45, 135} THEN 7071 ELSE -7071

\* `symbol & mask` in place of `(symbol >> width) & mask`.
QIndexNoShift(symbol, width) == symbol % Pow2(width)

\* i_idx = symbol & 0b11 (0b111)
IIndex(symbol, width) == symbol % Pow2(width)

\* q_idx = (symbol >> 2) & 0b11, (symbol >> 3) & 0b111
QIndex(symbol, width) == (symbol \div Pow2(width)) % Pow2(width)

\* Dividing the levels by the side of the grid (4.0, 8.0).
QamNormSide(modulation) == IF modulation = "16QAM" THEN 4 ELSE 8

\* The divisor of the levels: levels[...] / 3.0 and levels[...] / 7.0
QamNorm(modulation) == IF modulation = "16QAM" THEN 3 ELSE 7

\* _qam_constellation(symbol) for self.modulation = modulation
QamConstellation(modulation, symbol) ==
    IF modulation = "BPSK"
    THEN [i |-> IF symbol = 1 THEN 1 ELSE -1, q |-> 0, den |-> 1]
    ELSE IF modulation = "QPSK"
    THEN LET angles == <<45, 135, 225, 315>>
         IN  [i |-> CosDeg(angles[symbol + 1]), q |-> SinDeg(angles[symbol + 1]),
              den |-> 10000]
    ELSE IF modulation = "16QAM"
    THEN LET levels == <<-3, -1, 1, 3>>
         IN  [i |-> levels[IIndex(symbol, 2) + 1], q |-> levels[QIndex(symbol, 2) + 1],
              den |-> QamNorm(modulation)]
    ELSE IF modulation = "64QAM"
    THEN LET levels == <<-7, -5, -3, -1, 1, 3, 5, 7>>
         IN  [i |-> levels[IIndex(symbol, 3) + 1], q |-> levels[QIndex(symbol, 3) + 1],
              den |-> QamNorm(modulation)]
    ELSE [i |-> 0, q |-> 0, den |-> 1]

\* UltrasonicOFDM(sample_rate, num_carriers, modulation)
OfdmConstruct(sample_rate, num_carriers, modulation) ==
    /\ enc.status = "none"
    /\ enc' = NewEncoder(sample_rate, num_carriers, modulation)
    /\ UNCHANGED <<hopper, lookup, calls, work, queue_vars>>

\* The values of a group of bits_per_symbol bits.
BitGroups == IF enc.status = "ready" THEN 0..(Pow2(enc.bits_per_symbol) - 1) ELSE {}

\* encoder._qam_constellation(symbol) for a bit-group of bits_per_symbol bits
MapSymbol(symbol) ==
    /\ enc.status = "ready"
    /\ calls' = Logged([op |-> "map", symbol |-> symbol,
                        point |-> QamConstellation(enc.modulation, symbol)])
    /\ UNCHANGED <<hopper, lookup, enc, work, queue_vars>>

\* int(self.sample_rate * SYMBOL_DURATION)
SymbolSamples(sample_rate) == (sample_rate * SYMBOL_DURATION) \div TICKS_PER_SECOND

\* int(self.sample_rate * GUARD_INTERVAL)
GuardSamples(sample_rate) == (sample_rate * GUARD_INTERVAL) \div TICKS_PER_SECOND

\* A buffer sized for the symbol periods only, the guard intervals forgotten.
NumSamplesNoGuard(sample_rate, num_frames) ==
    (sample_rate * num_frames * SYMBOL_DURATION) \div TICKS_PER_SECOND

\* total_duration = len(ofdm_symbols) * (SYMBOL_DURATION + GUARD_INTERVAL)
\* num_samples = int(self.sample_rate * total_duration)
NumSamples(sample_rate, num_frames) ==
    (sample_rate * num_frames * (SYMBOL_DURATION + GUARD_INTERVAL)) \div TICKS_PER_SECOND

\* The loop of encode over the OFDM symbols.  For every frame: the write index
\* at its first symbol sample, the number of symbol samples stored and the
\* number skipped by `if sample_idx < num_samples`.  The write index moves by
\* one per stored sample and by guard_samples after the frame; the samples of
\* the buffer that no frame stores keep their initial 0.0.
RECURSIVE FrameLayout(_, _, _, _, _, _)
FrameLayout(frame, num_frames, sample_idx, symbol_samples, guard_samples, num_samples) ==
    IF frame > num_frames THEN <<>>
    ELSE LET written == Max(0, Min(symbol_samples, num_samples - sample_idx))
         IN  <<[frame |-> frame, start |-> sample_idx, written |-> written,
                dropped |-> symbol_samples - written]>>
             \o FrameLayout(frame + 1, num_frames, sample_idx + written + guard_samples,
                            symbol_samples, guard_samples, num_samples)

\* encoder.encode(data): the OFDM symbols, the (I, Q) point of every carrier,
\* and the layout of the frames in the sample buffer.  ofdm_symbols is bound
\* once, to the value of self._bytes_to_symbols(data).
Encode(data) ==
    /\ enc.status = "ready"
    /\ IF enc.bits_per_symbol * enc.num_carriers = 0
       THEN calls' = Logged([op |-> "encode", outcome |-> "ZeroDivisionError",
                             data |-> data, symbols |-> <<>>, points |-> <<>>,
                             num_samples |-> 0, layout |-> <<>>])
       ELSE \E ofdm_symbols \in {BytesToSymbols(data, enc.num_carriers, enc.bits_per_symbol)} :
            LET num_samples == NumSamples(enc.sample_rate, Len(ofdm_symbols))
            IN  calls' = Logged(
                    [op |-> "encode", outcome |-> "ok", data |-> data,
                     symbols |-> ofdm_symbols,
                     points |-> [f \in 1..Len(ofdm_symbols) |->
                                   [c \in 1..enc.num_carriers |->
                                       QamConstellation(enc.modulation, ofdm_symbols[f][c])]],
                     num_samples |-> num_samples,
                     layout |-> FrameLayout(1, Len(ofdm_symbols), 0,
                                            SymbolSamples(enc.sample_rate),
                                            GuardSamples(enc.sample_rate), num_samples)])
    /\ UNCHANGED <<hopper, lookup, enc, work, queue_vars>>

\* len(data): the payload counted in bytes, not in bits.
PayloadBytes(data) == Len(data)

\* len(data) * 8
PayloadBits(data) == Len(data) * 8

\* encoder.calculate_stats(data, samples) on the payload and the waveform of
\* the encode call before it, as transmit_text calls it.  transmission_time =
\* len(samples) / sample_rate; bitrate = len(data) * 8 / transmission_time is
\* the fraction num/den and raises for a waveform of no samples; efficiency =
\* bitrate / OFDM_BANDWIDTH; bitrate_bps = int(bitrate).
CalculateStats ==
    /\ enc.status = "ready"
    /\ calls # <<>>
    /\ LET last == calls[Len(calls)]
       IN  /\ last.op = "encode"
           /\ last.outcome = "ok"
           /\ IF last.num_samples = 0
              THEN calls' = Logged([op |-> "stats", outcome |-> "ZeroDivisionError",
                                    data |-> last.data, num_samples |-> 0])
              ELSE LET bitrate == [num |-> PayloadBits(last.data) * enc.sample_rate,
                                   den |-> last.num_samples]
                   IN  calls' = Logged(
                           [op |-> "stats", outcome |-> "ok", data |-> last.data,
                            num_samples |-> last.num_samples,
                            raw_bytes |-> Len(last.data),
                            transmission_time |-> [num |-> last.num_samples,
                                                   den |-> enc.sample_rate],
                            bitrate_bps |-> bitrate.num \div bitrate.den,
                            efficiency |-> [num |-> bitrate.num,
                                            den |-> bitrate.den * OFDM_BANDWIDTH]])
    /\ UNCHANGED <<hopper, lookup, enc, work, queue_vars>>

(***************************************************************************)
(* The theoretical bitrate.  symbols_per_sec = 1.0 / (SYMBOL_DURATION +    *)
(* GUARD_INTERVAL) is the double 7330077518506666 * 2^-43, which is        *)
(* 10000/12 less 2/(3 * 2^43); its product with an integer k is rounded to *)
(* the nearest double, ties to even, and int() truncates the result.       *)
(***************************************************************************)

\* 3 * 2^43 * (10000/12 - symbols_per_sec)
SYMBOLS_PER_SEC_DEFICIT == 2

\* log2 of the weight of the last bit of symbols_per_sec.
SYMBOLS_PER_SEC_SCALE == 43

\* Bits of the significand of a double.
DOUBLE_SIGNIFICAND == 53

\* int(symbols_per_sec * bits_per_ofdm_symbol).  When 10000 * k / 12 is not an
\* integer the product is within 1e-9 of it and int() gives its floor.  When
\* it is an integer T, with 2^e <= T < 2^(e+1), the exact product is
\* T * 2^43 - 2 * (k / 3) in units of 2^-43 and the doubles near T are
\* 2^(e - 52 + 43) units apart: the product rounds to T if it lies within half
\* of that distance of T (T has an even significand), and to a double below T
\* otherwise, which int() truncates to T - 1.
IntOfProduct(k) ==
    LET num == k * TICKS_PER_SECOND
        den == SYMBOL_DURATION + GUARD_INTERVAL
        T == num \div den
        distance_exp == Log2(T) - (DOUBLE_SIGNIFICAND - 1) + SYMBOLS_PER_SEC_SCALE
    IN  IF k = 0 THEN 0
        ELSE IF num % den # 0 THEN T
        ELSE IF distance_exp >= 0
                /\ 2 * SYMBOLS_PER_SEC_DEFICIT * (k \div 3) <= Pow2(distance_exp)
        THEN T
        ELSE T - 1

\* The bitrate of the carriers alone, the bits of the modulation left out.
CalculateBitrateOfCarriers(e) == IntOfProduct(e.num_carriers)

\* encoder._calculate_bitrate()
CalculateBitrate(e) == IntOfProduct(e.num_carriers * e.bits_per_symbol)

\* UltrasonicOFDM(num_carriers=..., modulation=...)._calculate_bitrate(), the
\* figure __init__ reports for the new encoder.
TheoreticalBitrate(num_carriers, modulation) ==
    LET e == NewEncoder(SAMPLE_RATE, num_carriers, modulation)
    IN  /\ e.status = "ready"
        /\ calls' = Logged([op |-> "bitrate", num_carriers |-> num_carriers,
                            modulation |-> modulation,
                            bits_per_symbol |-> e.bits_per_symbol,
                            bitrate |-> CalculateBitrate(e)])
        /\ UNCHANGED <<hopper, lookup, enc, work, queue_vars>>

(***************************************************************************)
(* Specifications of the multi-carrier codec: the constellation mapper,    *)
(* and the encoder.                                                        *)
(***************************************************************************)
NextQam ==
    \/ \E sample_rate \in OfdmSampleRates, num_carriers \in 0..MaxCarriers,
          modulation \in ModulationNames :
          OfdmConstruct(sample_rate, num_carriers, modulation)
    \/ \E symbol \in BitGroups : MapSymbol(symbol)

SpecQam == Init /\ [][NextQam]_vars

NextOfdm ==
    \/ \E sample_rate \in OfdmSampleRates, num_carriers \in 0..MaxCarriers,
          modulation \in ModulationNames :
          OfdmConstruct(sample_rate, num_carriers, modulation)
    \/ \E data \in Payloads : Encode(data)
    \/ CalculateStats

SpecOfdm == Init /\ [][NextOfdm]_vars

\* The bitrates of encoders of a few carriers and of the default 64.
RateCarriers == (0..(4 * MaxCarriers)) \cup {OFDM_NUM_CARRIERS}

NextRate ==
    \E num_carriers \in RateCarriers, modulation \in ModulationNames :
       TheoreticalBitrate(num_carriers, modulation)

SpecRate == Init /\ [][NextRate]_vars

\* Every call of the two codecs.  A session works with a hopper or with an
\* encoder: the two objects share no state.
NextFrame ==
    \/ /\ enc.status = "none"
       /\ \E key \in {k \in KeyArgs : Len(k.bytes) <= 1}, cfg \in HopConfigs,
             rate \in HopSampleRates :
             Construct(key, cfg, DWELL_TIME_MS, rate)
    \/ GenStep(1)
    \/ GenByteError(1)
    \/ GenReturn(1)
    \/ \E symbol \in TxSymbols, hop_index \in StartHops : EncodeSymbolCall(symbol, hop_index)
    \/ \E symbols \in {m \in Messages : Len(m) <= 1} : EncodeMessage(symbols, MaxHopIndex)
    \/ \E window \in RxWindows(hopper[1], MaxHopIndex) : DecodeSymbol(window, MaxHopIndex)
    \/ ExportKey
    \/ \E concepts \in SeqsUpTo(Concepts, MaxSymbols) : TransmitConcepts(concepts)
    \/ /\ hopper[1].status = "none"
       /\ \E sample_rate \in OfdmSampleRates, num_carriers \in 0..MaxCarriers,
             modulation \in ModulationNames :
             OfdmConstruct(sample_rate, num_carriers, modulation)
    \/ \E data \in {d \in Payloads : Len(d) <= 1} : Encode(data)
    \/ CalculateStats

SpecFrame == Init /\ [][NextFrame]_vars

(***************************************************************************)
(* Claims about the hopper.                                                *)
(***************************************************************************)
ValidConfig(h) == h.hop_range[1] < h.hop_range[2] /\ h.hop_spacing > 0

\* floor((freq_max - freq_min) / spacing) for a valid configuration.
ChannelCount(h) == (h.hop_range[2] - h.hop_range[1]) \div h.hop_spacing

ChannelGrid(h) == {h.hop_range[1] + j * h.hop_spacing : j \in 0..(ChannelCount(h) - 1)}

\* C1: for every key and every configuration with freq_min < freq_max and
\* spacing > 0, the hop table a construction returns is a permutation of the
\* channel grid: it has floor((freq_max - freq_min)/spacing) entries (200 for
\* (20000, 40000) with spacing 100) and every grid frequency occurs exactly once.
C1_HopTableIsPermutation ==
    \A k \in Instances :
        LET h == hopper[k] IN
        (h.status = "ready" /\ ValidConfig(h)) =>
            /\ Len(h.hop_frequencies) = ChannelCount(h)
            /\ h.hop_count = ChannelCount(h)
            /\ Range(h.hop_frequencies) = ChannelGrid(h)
            /\ Cardinality(Range(h.hop_frequencies)) = Len(h.hop_frequencies)
            /\ (h.hop_range = <<20000, 40000>> /\ h.hop_spacing = 100 => h.hop_count = 200)

\* A returned table of the default grid that differs from the ordered grid.
C1_Witness ==
    \E k \in Instances :
        /\ hopper[k].status = "ready"
        /\ hopper[k].hop_range = <<20000, 40000>>
        /\ hopper[k].hop_count = 200
        /\ hopper[k].hop_frequencies # hopper[k].frequencies

\* C2: for every key k a caller passes as secret_key (a byte sequence of any
\* length), two independently constructed hoppers given the same k and the
\* same grid configuration hold identical hop sequences.
C2_SameKeySameSequence ==
    (/\ hopper[1].status = "ready"
     /\ hopper[2].status = "ready"
     /\ ~hopper[1].arg_key.none
     /\ hopper[2].arg_key = hopper[1].arg_key
     /\ hopper[2].hop_range = hopper[1].hop_range
     /\ hopper[2].hop_spacing = hopper[1].hop_spacing)
        => hopper[2].hop_frequencies = hopper[1].hop_frequencies

\* C4: on a generator with a non-empty table, a lookup with hop_index >= 0
\* returns the table entry at hop_index mod channel_count, which is a position
\* inside the table.
C4_LookupWrapsAround ==
    (lookup.outcome # "none" /\ hopper[lookup.inst].hop_count > 0) =>
        LET h == hopper[lookup.inst]
            n == Len(h.hop_frequencies)
        IN  /\ lookup.outcome = "ok"
            /\ lookup.index < n
            /\ lookup.index = lookup.hop_index % n
            /\ lookup.freq = h.hop_frequencies[(lookup.hop_index % n) + 1]

\* A lookup past the end of the table that wrapped around.
C4_Witness ==
    /\ lookup.outcome = "ok"
    /\ lookup.hop_index >= hopper[lookup.inst].hop_count
    /\ lookup.index > 0

\* C5: a construction with freq_min >= freq_max or spacing <= 0 fails, and no
\* generator with an empty channel grid is returned to the caller.
C5_BadConfigRejected ==
    \A k \in Instances :
        LET h == hopper[k] IN
        /\ ~ValidConfig(h) => h.status # "ready"
        /\ h.status = "ready" => h.hop_count > 0

(***************************************************************************)
(* Claims about the multi-carrier codec.                                   *)
(***************************************************************************)
MapCalls == {n \in 1..Len(calls) : calls[n].op = "map"}
EncodeCalls == {n \in 1..Len(calls) : calls[n].op = "encode" /\ calls[n].outcome = "ok"}

\* C3: for each modulation order and every bitstream there is a decode with
\* decode(encode(bits)) = bits once the padding is stripped.  Such a decode
\* exists only if payloads with the same encoding are equal; the waveform of
\* encode is a function of the OFDM symbols and the configuration.
C3_EncodeIsInvertible ==
    \A m, n \in EncodeCalls :
        calls[m].symbols = calls[n].symbols => calls[m].data = calls[n].data

\* C6: in both codecs every carrier frequency of a constructed object is
\* below sample_rate / 2 (a carrier at or above it fails construction).
C6_CarriersBelowNyquist ==
    /\ enc.status = "ready" =>
          \A c \in 1..Len(enc.carrier_freqs) : enc.carrier_freqs[c] < enc.sample_rate
    /\ \A k \in Instances :
          hopper[k].status = "ready" =>
              \A c \in 1..Len(hopper[k].hop_frequencies) :
                  2 * hopper[k].hop_frequencies[c] < hopper[k].sample_rate

\* C7: for each supported modulation the constellation map is injective on
\* the bit-group values 0 .. 2^b - 1, and every point lies in [-1,1] x [-1,1].
C7_ConstellationInjective ==
    /\ \A m, n \in MapCalls :
          calls[m].symbol # calls[n].symbol =>
              (calls[m].point.i # calls[n].point.i \/ calls[m].point.q # calls[n].point.q)
    /\ \A n \in MapCalls :
          /\ Abs(calls[n].point.i) <= calls[n].point.den
          /\ Abs(calls[n].point.q) <= calls[n].point.den

\* Two 64QAM bit-groups that differ only in their upper three bits.
C7_Witness ==
    /\ enc.status = "ready" /\ enc.modulation = "64QAM"
    /\ MapCalls = {1, 2}
    /\ calls[1].symbol # calls[2].symbol
    /\ calls[1].symbol % 8 = calls[2].symbol % 8

NormSquared(point) == point.i * point.i + point.q * point.q

\* C8 as stated: the maximum-magnitude point has unit norm, so no
\* constellation point of any supported order has I^2 + Q^2 > 1.
C8_UnitNorm ==
    \A n \in MapCalls : NormSquared(calls[n].point) <= calls[n].point.den * calls[n].point.den

\* The corner bit-groups of the square grids: both level indices extreme.
CornerSymbols == IF enc.modulation = "16QAM" THEN {0, 3, 12, 15} ELSE {0, 7, 56, 63}

\* C8 amended: 16QAM and 64QAM are normalized per axis, |I| <= 1 and |Q| <= 1,
\* so I^2 + Q^2 <= 2 with the maximum 2 exactly at the four corner points;
\* BPSK and QPSK points have I^2 + Q^2 <= 1.
C8_AxisNormalized ==
    \A n \in MapCalls :
        LET pt == calls[n].point
            unit == pt.den * pt.den
        IN  IF enc.modulation \in {"16QAM", "64QAM"}
            THEN /\ Abs(pt.i) <= pt.den /\ Abs(pt.q) <= pt.den
                 /\ NormSquared(pt) <= 2 * unit
                 /\ (NormSquared(pt) = 2 * unit) = (calls[n].symbol \in CornerSymbols)
            ELSE NormSquared(pt) <= unit

\* The 16QAM corner (1, 1) of norm sqrt(2).
C8_Witness ==
    /\ enc.status = "ready" /\ enc.modulation = "16QAM"
    /\ \E n \in MapCalls :
          calls[n].symbol = 15 /\ calls[n].point = [i |-> 3, q |-> 3, den |-> 3]

PaddedBit(data, k) ==
    IF k < 8 * Len(data) THEN (data[(k \div 8) + 1] \div Pow2(k % 8)) % 2 ELSE 0

\* C10: _bytes_to_symbols pads with zero bits only, up to the next multiple
\* of N*b, and yields ceil(8*len(data)/(N*b)) frames of N symbols each, every
\* symbol in 0 .. 2^b - 1; bit j of the symbol of frame f, carrier c is bit
\* (f*N + c)*b + j of the padded stream.
C10_FramesCarryBitsInOrder ==
    \A n \in EncodeCalls :
        LET N == enc.num_carriers
            b == enc.bits_per_symbol
            data == calls[n].data
            frames == calls[n].symbols
        IN  /\ Len(frames) = (8 * Len(data) + N * b - 1) \div (N * b)
            /\ Len(frames) * N * b < 8 * Len(data) + N * b
            /\ \A f \in 1..Len(frames) :
                  /\ Len(frames[f]) = N
                  /\ \A c \in 1..N :
                        /\ frames[f][c] \in 0..(Pow2(b) - 1)
                        /\ \A j \in 0..(b - 1) :
                              (frames[f][c] \div Pow2(j)) % 2
                                  = PaddedBit(data, ((f - 1) * N + (c - 1)) * b + j)

\* A payload that needs padding and fills more than one frame.
C10_Witness ==
    \E n \in EncodeCalls :
        /\ Len(calls[n].symbols) = 2
        /\ enc.num_carriers = 2
        /\ (8 * Len(calls[n].data)) % (enc.num_carriers * enc.bits_per_symbol) # 0
        /\ calls[n].symbols[2][1] # 0

(***************************************************************************)
(* Claims about the waveform of the encoder.                               *)
(***************************************************************************)

\* The number of the samples [from, from + count) inside a buffer of num_samples.
Inside(from, count, num_samples) == Max(0, Min(count, num_samples - from))

\* The samples [a, a + m) and [b, b + n) inside a buffer of num_samples have
\* no index in common.
Apart(a, m, b, n, num_samples) ==
    \/ Inside(a, m, num_samples) = 0
    \/ Inside(b, n, num_samples) = 0
    \/ a + Inside(a, m, num_samples) <= b
    \/ b + Inside(b, n, num_samples) <= a

\* C11: in the waveform of encode, frame k = 0, 1, ... stores its S symbol
\* samples at the indices [k*(S+G), k*(S+G)+S), all of them inside the
\* buffer (none is skipped by the `sample_idx < num_samples` guard); the G
\* samples after them are stored by no frame, so they keep the initial 0.0;
\* and there is one frame per OFDM symbol, in the order of the symbols.
C11_FramesLaidOutInOrder ==
    \A n \in EncodeCalls :
        LET L == calls[n].layout
            S == SymbolSamples(enc.sample_rate)
            G == GuardSamples(enc.sample_rate)
        IN  /\ Len(L) = Len(calls[n].symbols)
            /\ \A k \in 1..Len(L) :
                  /\ L[k].frame = k
                  /\ L[k].start = (k - 1) * (S + G)
                  /\ L[k].written = S
                  /\ L[k].dropped = 0
                  /\ L[k].start + S <= calls[n].num_samples
                  /\ \A j \in 1..Len(L) :
                        /\ Apart(L[j].start, L[j].written, L[k].start + S, G,
                                 calls[n].num_samples)
                        /\ j # k => Apart(L[j].start, L[j].written,
                                          L[k].start, L[k].written, calls[n].num_samples)

\* A waveform of three frames or more at 192 kHz, where the guard interval is
\* 38.4 samples and 38 are skipped.
C11_Witness ==
    \E n \in EncodeCalls :
        /\ Len(calls[n].layout) >= 3
        /\ enc.sample_rate = SAMPLE_RATE
        /\ calls[n].layout[3].start = 2 * (192 + 38)
        /\ calls[n].num_samples > Len(calls[n].layout) * (192 + 38)


(***************************************************************************)
(* Claims about hopped transmission and reception.                         *)
(***************************************************************************)
TxCalls == {n \in 1..Len(calls) : calls[n].op = "encode_message"}

\* C12: on a generator with a non-empty hop table, encode_message(symbols,
\* start_hop) returns one dwell window per symbol, in input order, window i
\* (i = 0..n-1) carrying symbol i on the carrier of slot (start_hop + i) mod
\* hop_count; the output has n * floor(sample_rate * dwell_time) samples and
\* the metadata has end_hop = start_hop + n and hops_used = num_symbols = n.
C12_MessageHopsOncePerSymbol ==
    \A n \in TxCalls :
        LET c == calls[n]
            h == hopper[1]
            len == Len(c.symbols)
        IN  ValidConfig(h) /\ h.hop_count > 0 =>
              /\ c.outcome = "ok"
              /\ Len(c.windows) = len
              /\ \A i \in 0..(len - 1) :
                    /\ c.windows[i + 1].carrier =
                          h.hop_frequencies[((c.start_hop_index + i) % h.hop_count) + 1]
                    /\ c.windows[i + 1].freq = c.symbols[i + 1].freq
                    /\ c.windows[i + 1].amplitude = c.symbols[i + 1].amplitude
                    /\ c.windows[i + 1].phase = c.symbols[i + 1].phase
              /\ c.num_out_samples = len * ((h.sample_rate * h.dwell_time_ms) \div 1000)
              /\ c.metadata.end_hop = c.start_hop_index + len
              /\ c.metadata.hops_used = len
              /\ c.metadata.num_symbols = len

RxCalls == {n \in 1..Len(calls) : calls[n].op = "decode_symbol"}

\* A dwell window as encode_symbol makes it at hop_index: whole, with energy.
IsDwellWindow(window, hop_index) ==
    /\ CarrierAt(hopper[1], hop_index).outcome = "ok"
    /\ window.carrier = CarrierAt(hopper[1], hop_index).freq
    /\ window.num_samples = DwellSamples(hopper[1])
    /\ window.num_samples >= AVERAGING_WINDOW
    /\ window.amplitude > 0

\* C13: decode recovers the modulating frequency from the window: of two
\* dwell windows encoded at the same hop index with different modulating
\* frequencies, decode_symbol returns different recovered frequencies, each
\* equal to the frequency that was encoded.
C13_DecodeRecoversModulatingFreq ==
    \A m, n \in RxCalls :
        ( /\ m # n
          /\ calls[m].outcome = "ok" /\ calls[n].outcome = "ok"
          /\ calls[m].hop_index = calls[n].hop_index
          /\ IsDwellWindow(calls[m].window, calls[m].hop_index)
          /\ IsDwellWindow(calls[n].window, calls[n].hop_index)
          /\ calls[m].window.freq # calls[n].window.freq )
        => /\ calls[m].recovered_freq # calls[n].recovered_freq
           /\ calls[m].recovered_freq = calls[m].window.freq
           /\ calls[n].recovered_freq = calls[n].window.freq

\* C14: on a validly constructed generator decode_symbol returns a result
\* for every non-empty window and every hop_index >= 0, and the amplitude of
\* the result is zero for a window shorter than the 50-sample averaging
\* window and for a window of zeros.
C14_DecodeNeverRaises ==
    \A n \in RxCalls :
        LET c == calls[n]
        IN  (ValidConfig(hopper[1]) /\ hopper[1].hop_count > 0 /\ c.window.num_samples > 0)
            => /\ c.outcome = "ok"
               /\ (c.window.num_samples < AVERAGING_WINDOW \/ c.window.amplitude = 0)
                     => c.amplitude = "zero"

\* A dwell window cut to 49 samples is decoded past the end of the hop table.
C14_Witness ==
    \E n \in RxCalls :
        /\ ValidConfig(hopper[1])
        /\ calls[n].hop_index >= hopper[1].hop_count
        /\ hopper[1].hop_count > 0
        /\ calls[n].window.num_samples = AVERAGING_WINDOW - 1
        /\ calls[n].window.amplitude > 0
        /\ calls[n].outcome = "ok"
        /\ calls[n].amplitude = "zero"

\* C15: decode of a window of zero samples fails: it never returns a
\* (freq, amplitude, phase) result.
C15_EmptyWindowFails ==
    \A n \in RxCalls :
        (ValidConfig(hopper[1]) /\ hopper[1].hop_count > 0 /\ calls[n].window.num_samples = 0)
        => calls[n].outcome # "ok"

(***************************************************************************)
(* Claims about the bitrate.                                               *)
(***************************************************************************)
RateCalls == {n \in 1..Len(calls) : calls[n].op = "bitrate"}

\* C16: the reported bitrate equals num_carriers * bits_per_symbol /
\* (symbol_duration + guard_interval) exactly, here for the configurations
\* where that quotient is an integer (the reported figure is an integer);
\* for 64 carriers and 64QAM it is 320000.
C16_BitrateIsExact ==
    \A n \in RateCalls :
        LET c == calls[n]
            bits == c.num_carriers * c.bits_per_symbol
        IN  /\ (bits * TICKS_PER_SECOND) % (SYMBOL_DURATION + GUARD_INTERVAL) = 0
                 => c.bitrate * (SYMBOL_DURATION + GUARD_INTERVAL) = bits * TICKS_PER_SECOND
            /\ (c.num_carriers = OFDM_NUM_CARRIERS /\ c.modulation = "64QAM")
                 => c.bitrate = 320000

\* C17: for a fixed number of carriers >= 1, a modulation with more bits
\* per symbol has a strictly higher reported bitrate:
\* bitrate(BPSK) < bitrate(QPSK) < bitrate(16QAM) < bitrate(64QAM).
C17_BitrateOrderedByModulation ==
    \A m, n \in RateCalls :
        ( /\ calls[m].num_carriers = calls[n].num_carriers
          /\ calls[m].num_carriers >= 1
          /\ QAM_LEVELS[calls[m].modulation] < QAM_LEVELS[calls[n].modulation] )
        => calls[m].bitrate < calls[n].bitrate

\* 16QAM and 64QAM on three carriers: 10000 and 14999 bits per second.
C17_Witness ==
    \E m, n \in RateCalls :
        /\ calls[m].num_carriers = 3 /\ calls[n].num_carriers = 3
        /\ calls[m].modulation = "16QAM" /\ calls[n].modulation = "64QAM"
        /\ calls[m].bitrate = 10000
        /\ calls[n].bitrate = 14999

(***************************************************************************)
(* Claims about the transmission statistics.                               *)
(***************************************************************************)
StatsCalls == {n \in 1..Len(calls) : calls[n].op = "stats"}

SYMBOL_RATE_HALF_HZ == (2 * TICKS_PER_SECOND) \div SYMBOL_DURATION

\* The carrier spacing is an integer multiple of 1 / symbol_duration.
Orthogonal == OFDM_CARRIER_SPACING_HALF_HZ % SYMBOL_RATE_HALF_HZ = 0

\* C19: an encoder whose carrier spacing is not an integer multiple of
\* 1/symbol_duration is accepted and encodes, and the non-orthogonal
\* condition is surfaced to the caller as a flag or warning.
C19_NonOrthogonalIsFlagged ==
    (enc.status = "ready" /\ enc.num_carriers >= 2 /\ ~Orthogonal)
    => \E line \in enc.printed : line \in {"NonOrthogonalConfigWarning", "non-orthogonal"}

(***************************************************************************)
(* Claims about the key exchange.                                          *)
(***************************************************************************)

\* C20: import_key(export_key()) is the exporter's secret key byte for
\* byte, and a generator constructed from the imported key with the
\* exporter's grid configuration has the exporter's hop sequence.
C20_KeyExchangeRoundTrips ==
    /\ \A n \in 1..Len(calls) :
          calls[n].op = "import_key"
          => /\ calls[n].outcome = "ok"
             /\ calls[n].key = hopper[1].secret_key
             /\ calls[n].key_hex = ToHex(hopper[1].secret_key)
             /\ Len(calls[n].key_hex) = 2 * Len(hopper[1].secret_key)
    /\ hopper[2].status \notin {"none", "gen"}
          => /\ hopper[2].status = "ready"
             /\ hopper[2].secret_key = hopper[1].secret_key
             /\ hopper[2].hop_frequencies = hopper[1].hop_frequencies

\* An exporter that drew its own random key (None was passed), and the
\* generator built from the imported key, with the same ten-channel table.
C20_Witness ==
    /\ hopper[1].arg_key.none
    /\ hopper[1].status = "ready"
    /\ hopper[2].status = "ready"
    /\ hopper[2].arg_key.bytes = hopper[1].secret_key
    /\ hopper[1].hop_count = 10
    /\ hopper[2].hop_frequencies = hopper[1].hop_frequencies
    /\ \E n \in 1..Len(calls) : calls[n].op = "import_key" /\ calls[n].key = <<1, 2>>

(***************************************************************************)
(* The encode loops, one slot at a time.  `work` holds one encode in        *)
(* progress: its input, the loop variables of the sequential loop (done     *)
(* slots, cursor = sample_idx or hop_idx, out = the slots produced so far)  *)
(* and `placed`, the slots synthesized out of order by workers that run     *)
(* the loop body for one slot number each.                                  *)
(***************************************************************************)
MaxSlots == 3

\* encode(data) up to the entry of `for ofdm_symbol in ofdm_symbols`.
BeginEncode(data) ==
    /\ enc.status = "ready"
    /\ work.codec = "none"
    /\ enc.bits_per_symbol * enc.num_carriers # 0
    /\ \E ofdm_symbols \in {BytesToSymbols(data, enc.num_carriers, enc.bits_per_symbol)} :
          /\ Len(ofdm_symbols) <= MaxSlots
          /\ work' = [codec |-> "ofdm", outcome |-> "ok", data |-> data,
                      symbols |-> ofdm_symbols, start |-> 0,
                      num_samples |-> NumSamples(enc.sample_rate, Len(ofdm_symbols)),
                      cursor |-> 0, done |-> 0, out |-> <<>>, placed |-> <<>>]
    /\ UNCHANGED <<hopper, lookup, enc, calls, queue_vars>>

\* encode_message(symbols, start_hop_index) up to the entry of its loop.
BeginMessage(symbols, start_hop_index) ==
    /\ hopper[1].status = "ready"
    /\ work.codec = "none"
    /\ Len(symbols) <= MaxSlots
    /\ work' = [codec |-> "fhss", outcome |-> "ok", data |-> <<>>,
                symbols |-> symbols, start |-> start_hop_index, num_samples |-> 0,
                cursor |-> start_hop_index, done |-> 0, out |-> <<>>, placed |-> <<>>]
    /\ UNCHANGED <<hopper, lookup, enc, calls, queue_vars>>

\* The body of encode's loop for one OFDM symbol written at sample_idx: the
\* (I, Q) point of every carrier, the samples stored and those dropped.
FrameAt(e, ofdm_symbol, frame, sample_idx, num_samples) ==
    LET written == Max(0, Min(SymbolSamples(e.sample_rate), num_samples - sample_idx))
    IN  [slot |-> frame, start |-> sample_idx, written |-> written,
         dropped |-> SymbolSamples(e.sample_rate) - written,
         points |-> [c \in 1..e.num_carriers |->
                        QamConstellation(e.modulation, ofdm_symbol[c])]]

\* One iteration of the sequential loop of the encode in progress.
EncodeLoopStep ==
    /\ work.codec # "none"
    /\ work.outcome = "ok"
    /\ work.done < Len(work.symbols)
    /\ IF work.codec = "ofdm"
       THEN LET f == FrameAt(enc, work.symbols[work.done + 1], work.done + 1,
                             work.cursor, work.num_samples)
            IN  work' = [work EXCEPT !.out = Append(@, f), !.done = @ + 1,
                                     !.cursor = @ + f.written + GuardSamples(enc.sample_rate)]
       ELSE LET r == EncodeSymbol(hopper[1], work.symbols[work.done + 1], work.cursor)
            IN  IF r.outcome # "ok"
                THEN work' = [work EXCEPT !.outcome = r.outcome]
                ELSE work' = [work EXCEPT !.out = Append(@, r.window), !.done = @ + 1,
                                          !.cursor = NextHopIdx(@)]
    /\ UNCHANGED <<hopper, lookup, enc, calls, queue_vars>>

\* A worker runs the loop body for slot k alone, from the input and the
\* configuration: frame k is written at (k - 1) * (symbol_samples +
\* guard_samples), window k is on the carrier of hop start_hop_index + k - 1.
\* A worker whose encode_symbol raises places nothing.
SynthesizeSlot(k) ==
    /\ work.codec # "none"
    /\ k \in 1..Len(work.symbols)
    /\ k \notin DOMAIN work.placed
    /\ IF work.codec = "ofdm"
       THEN LET at == (k - 1) * (SymbolSamples(enc.sample_rate) + GuardSamples(enc.sample_rate))
            IN  work' = [work EXCEPT !.placed =
                            @ @@ (k :> FrameAt(enc, work.symbols[k], k, at, work.num_samples))]
       ELSE LET r == EncodeSymbol(hopper[1], work.symbols[k], work.start + k - 1)
            IN  /\ r.outcome = "ok"
                /\ work' = [work EXCEPT !.placed = @ @@ (k :> r.window)]
    /\ UNCHANGED <<hopper, lookup, enc, calls, queue_vars>>

\* An encode of either codec, sequential and by workers.
NextSlots ==
    \/ /\ enc.status = "none"
       /\ \E key \in KeyArgs, cfg \in HopConfigs, rate \in HopSampleRates :
             Construct(key, cfg, DWELL_TIME_MS, rate)
    \/ GenStep(1)
    \/ GenByteError(1)
    \/ GenReturn(1)
    \/ /\ hopper[1].status = "none"
       /\ \E sample_rate \in OfdmSampleRates, num_carriers \in 0..MaxCarriers,
             modulation \in ModulationNames :
             OfdmConstruct(sample_rate, num_carriers, modulation)
    \/ \E data \in Payloads : BeginEncode(data)
    \/ \E symbols \in Messages, start_hop_index \in StartHops :
          BeginMessage(symbols, start_hop_index)
    \/ EncodeLoopStep
    \/ \E k \in 1..MaxSlots : SynthesizeSlot(k)

SpecSlots == Init /\ [][NextSlots]_vars

(***************************************************************************)
(* MessageQueue and UltrasonicMessenger.  `messages` is the table in        *)
(* insertion order, `now` the clock in seconds, messenger[p] the position   *)
(* of messenger p in process_queue, transmitted[n] the number of            *)
(* transmissions of message n.                                              *)
(***************************************************************************)
MaxMessages == 2
MaxTime == 5

MessagePriority == [LOW |-> 0, NORMAL |-> 1, HIGH |-> 2, URGENT |-> 3, CRITICAL |-> 4]

\* Arguments of send_message / enqueue.
Receivers == {"Hex3"}
Priorities == {MessagePriority.NORMAL, MessagePriority.URGENT}
Ttls == {2}

\* `if self.attempts >= 10`
MAX_ATTEMPTS == 10

\* `min(2 ** self.attempts, 16.0)`
MAX_BACKOFF == 16

Rows(table) == DOMAIN table

\* queue.enqueue(sender_id, receiver_id, payload, priority, ttl_seconds) by
\* the sender "Warp".  message_id is a digest of sender, receiver and the
\* timestamp: a second message of the same pair at the same time has the
\* same id, and the INSERT fails on the primary key.
Enqueue(receiver_id, priority, ttl_seconds) ==
    LET message_id == <<receiver_id, now>>
        message == [message_id |-> message_id, receiver_id |-> receiver_id,
                    priority |-> priority, status |-> "pending",
                    created_at |-> now, expires_at |-> now + ttl_seconds,
                    attempts |-> 0, last_attempt |-> 0, delivered_at |-> 0]
    IN  /\ Len(messages) < MaxMessages
        /\ now + ttl_seconds < MaxTime
        /\ IF \E n \in Rows(messages) : messages[n].message_id = message_id
           THEN UNCHANGED <<messages, transmitted>>
           ELSE /\ messages' = Append(messages, message)
                /\ transmitted' = Append(transmitted, 0)
        /\ UNCHANGED <<now, messenger, codec_vars>>

\* A sweep that leaves the SENT messages alone.
SweepPendingOnly(table, t) ==
    [n \in Rows(table) |->
        IF table[n].expires_at < t /\ table[n].status = "pending"
        THEN [table[n] EXCEPT !.status = "expired"] ELSE table[n]]

\* UPDATE messages SET status = 'expired'
\* WHERE expires_at < now AND status NOT IN ('delivered', 'failed')
Sweep(table, t) ==
    [n \in Rows(table) |->
        IF table[n].expires_at < t /\ table[n].status \notin {"delivered", "failed"}
        THEN [table[n] EXCEPT !.status = "expired"] ELSE table[n]]

\* The oldest PENDING rows, whatever their priority.
OldestPending(table) ==
    LET pending == {n \in Rows(table) : table[n].status = "pending"}
    IN  {n \in pending : \A o \in pending : table[n].created_at <= table[o].created_at}

\* SELECT * FROM messages WHERE status = 'pending'
\* ORDER BY priority DESC, created_at ASC LIMIT 1: the rows that can come
\* first (rows equal in both keys come in an order SQLite chooses).
NextPending(table) ==
    LET pending == {n \in Rows(table) : table[n].status = "pending"}
    IN  {n \in pending :
            \A o \in pending :
                \/ table[n].priority > table[o].priority
                \/ /\ table[n].priority = table[o].priority
                   /\ table[n].created_at <= table[o].created_at}

\* message.is_expired() at time t
IsExpired(message, t) == t > message.expires_at

\* message.get_backoff_delay()
GetBackoffDelay(message) == Min(Pow2(message.attempts), MAX_BACKOFF)

\* message.should_retry() at time t
ShouldRetry(message, t) ==
    IF IsExpired(message, t) THEN FALSE
    ELSE IF message.attempts >= MAX_ATTEMPTS THEN FALSE
    ELSE IF message.status \in {"delivered", "failed"} THEN FALSE
    ELSE IF message.last_attempt = 0 THEN TRUE
    ELSE (t - message.last_attempt) >= GetBackoffDelay(message)

\* What get_next_message can return on `table` when its sweep reads the
\* clock at t and should_retry reads it at `later`: the rows of the message
\* returned, 0 for None.
GetNextMessage(table, t, later) ==
    LET swept == Sweep(table, t)
    IN  IF NextPending(swept) = {} THEN {0}
        ELSE {IF ShouldRetry(swept[row], later) THEN row ELSE 0 : row \in NextPending(swept)}

\* The first half of messenger p's process_queue: message =
\* self.queue.get_next_message().  The sweep reads the clock, should_retry
\* reads it again, at the same second or the next.
ProcessQueueGet(p) ==
    /\ messenger[p].pc = "idle"
    /\ \E later \in {now, Min(now + 1, MaxTime)} :
       \E result \in GetNextMessage(messages, now, later) :
          /\ messages' = Sweep(messages, now)
          /\ now' = later
          /\ messenger' = [messenger EXCEPT ![p] =
                              IF result = 0 THEN Waiting
                              ELSE [pc |-> "got", message |-> result]]
    /\ UNCHANGED <<transmitted, codec_vars>>

\* queue.mark_sent(message_id) on the row of that id.
MarkSent(table, row, t) ==
    [table EXCEPT ![row] = [@ EXCEPT !.status = "sent", !.attempts = @ + 1,
                                      !.last_attempt = t]]

\* The second half of messenger p's process_queue: mark_sent, then the
\* transmission of the message, then `return message`.
ProcessQueueSend(p) ==
    /\ messenger[p].pc = "got"
    /\ messages' = MarkSent(messages, messenger[p].message, now)
    /\ transmitted' = [transmitted EXCEPT ![messenger[p].message] = @ + 1]
    /\ messenger' = [messenger EXCEPT ![p] = Waiting]
    /\ UNCHANGED <<now, codec_vars>>

\* queue.mark_delivered(message_id): the ACK of a transmitted message has
\* arrived.
MarkDelivered(row) ==
    /\ row \in Rows(messages)
    /\ transmitted[row] > 0
    /\ messages' = [messages EXCEPT ![row] =
                       [@ EXCEPT !.status = "delivered", !.delivered_at = now]]
    /\ messages[row].status # "delivered"
    /\ UNCHANGED <<now, messenger, transmitted, codec_vars>>

\* queue.mark_failed(message_id): the sender gives up a message that was
\* transmitted and not acknowledged.
MarkFailed(row) ==
    /\ row \in Rows(messages)
    /\ messages[row].status = "sent"
    /\ messages' = [messages EXCEPT ![row] = [@ EXCEPT !.status = "failed"]]
    /\ UNCHANGED <<now, messenger, transmitted, codec_vars>>

\* One second passes.
Tick ==
    /\ now < MaxTime
    /\ now' = now + 1
    /\ UNCHANGED <<messages, messenger, transmitted, codec_vars>>

\* The queue as the module's demos drive it: the sender's messenger runs
\* process_queue, the receiver's ACKs arrive, time passes.
NextQueue ==
    \/ \E receiver_id \in Receivers, priority \in Priorities, ttl_seconds \in Ttls :
          Enqueue(receiver_id, priority, ttl_seconds)
    \/ ProcessQueueGet(1)
    \/ ProcessQueueSend(1)
    \/ \E row \in 1..MaxMessages : MarkDelivered(row)
    \/ \E row \in 1..MaxMessages : MarkFailed(row)
    \/ Tick

SpecQueue == Init /\ [][NextQueue]_vars

\* The queue driven as its protocol asks: time passes, the messenger keeps
\* calling process_queue and finishes the call it is in.
FairSpecQueue ==
    /\ SpecQueue
    /\ WF_vars(Tick)
    /\ WF_vars(ProcessQueueGet(1))
    /\ WF_vars(ProcessQueueSend(1))

\* Two messengers (or threads) run process_queue concurrently on one queue:
\* their get_next_message and mark_sent calls interleave.
NextShared ==
    \/ \E receiver_id \in Receivers, priority \in Priorities, ttl_seconds \in Ttls :
          Enqueue(receiver_id, priority, ttl_seconds)
    \/ \E p \in Messengers : ProcessQueueGet(p)
    \/ \E p \in Messengers : ProcessQueueSend(p)
    \/ \E row \in 1..MaxMessages : MarkDelivered(row)
    \/ \E row \in 1..MaxMessages : MarkFailed(row)
    \/ Tick

SpecShared == Init /\ [][NextShared]_vars

(***************************************************************************)
(* Claims about the effect of the calls on the objects.                    *)
(***************************************************************************)

\* C21: once a generator is constructed, no call changes its secret key, its
\* hop table or its hop_count; and no call on an encoder changes its
\* carrier_freqs, modulation or bits_per_symbol.
C21_CallsLeaveConfiguration ==
    [][ /\ hopper[1].status = "ready"
            => /\ hopper'[1].secret_key = hopper[1].secret_key
               /\ hopper'[1].hop_frequencies = hopper[1].hop_frequencies
               /\ hopper'[1].hop_count = hopper[1].hop_count
        /\ enc.status = "ready"
            => /\ enc'.carrier_freqs = enc.carrier_freqs
               /\ enc'.modulation = enc.modulation
               /\ enc'.bits_per_symbol = enc.bits_per_symbol ]_vars

\* A generator after an export_key call followed by a decode_symbol call.
C21_Witness ==
    /\ hopper[1].status = "ready"
    /\ hopper[1].hop_count = 10
    /\ Len(calls) = 2
    /\ calls[1].op = "export_key"
    /\ calls[2].op = "decode_symbol"
    /\ calls[1].key_hex = ToHex(hopper[1].secret_key)

SymbolCalls == {n \in 1..Len(calls) : calls[n].op = "encode_symbol"}

\* C28: on a valid generator with a non-empty hop table, encode_symbol returns
\* for every symbol with modulating frequency >= 0 (0 included) and every
\* hop_index >= 0 a window of exactly floor(sample_rate * dwell_time) samples,
\* and raises nothing.
C28_EncodeSymbolIsTotal ==
    \A n \in SymbolCalls :
        LET c == calls[n]
            h == hopper[1]
        IN  ValidConfig(h) /\ h.hop_count > 0 /\ c.symbol.freq >= 0 /\ c.hop_index >= 0 =>
              /\ c.outcome = "ok"
              /\ c.window.num_samples = (h.sample_rate * h.dwell_time_ms) \div 1000

\* C27: for every valid configuration, grids of more than 256 channels
\* included, the shuffle has after i steps i channels in the output and
\* count - i in the pool, the two disjoint and together the grid, and the
\* construction completes with a sequence of length count: it never fails.
C27_ShuffleCompletesForEveryGrid ==
    \A k \in Instances :
        LET h == hopper[k]
        IN  ValidConfig(h) /\ h.status \in {"gen", "ready", "ValueError"} =>
              /\ h.status # "ValueError"
              /\ Len(h.shuffled) = h.i
              /\ Len(h.remaining) = ChannelCount(h) - h.i
              /\ Range(h.shuffled) \cap Range(h.remaining) = {}
              /\ Range(h.shuffled) \cup Range(h.remaining) = ChannelGrid(h)
              /\ h.status = "ready" => Len(h.hop_frequencies) = ChannelCount(h)

(***************************************************************************)
(* Claims about the slots of a waveform.                                   *)
(***************************************************************************)

\* The slots of the whole call: encode's frames with their points, or
\* encode_message's windows.
FullEncode ==
    IF work.codec = "ofdm"
    THEN LET layout == FrameLayout(1, Len(work.symbols), 0, SymbolSamples(enc.sample_rate),
                                   GuardSamples(enc.sample_rate), work.num_samples)
         IN  [outcome |-> "ok",
              slots |-> [f \in 1..Len(work.symbols) |->
                          [slot |-> layout[f].frame, start |-> layout[f].start,
                           written |-> layout[f].written, dropped |-> layout[f].dropped,
                           points |-> [c \in 1..enc.num_carriers |->
                                         QamConstellation(enc.modulation, work.symbols[f][c])]]]]
    ELSE LET r == EncodeWindows(hopper[1], work.symbols, 1, work.start)
         IN  [outcome |-> r.outcome, slots |-> r.windows]

\* C22: in both codecs a slot synthesized alone by a worker, from the slot's
\* symbols and the configuration, and placed at its slot position is the
\* slot the sequential loop produces, whatever the order of the workers; and
\* the slots an encode has produced when it stops after k slots are the
\* first k slots of the full encode.
C22_SlotsAreIndependent ==
    work.codec # "none" =>
        /\ \A k \in DOMAIN work.placed :
              /\ k <= work.done => work.placed[k] = work.out[k]
              /\ FullEncode.outcome = "ok" => work.placed[k] = FullEncode.slots[k]
        /\ FullEncode.outcome = "ok" => work.out = SubSeq(FullEncode.slots, 1, work.done)

\* An OFDM encode of three frames stopped after two, the workers having
\* placed the last frame before the first.
C22_Witness ==
    /\ work.codec = "ofdm"
    /\ Len(work.symbols) = 3
    /\ work.done = 2
    /\ DOMAIN work.placed = {2, 3}
    /\ work.placed[2] = work.out[2]
    /\ work.out[2].start > 0

(***************************************************************************)
(* Claims about two keys.                                                  *)
(***************************************************************************)

\* Two constructed hoppers on the same grid whose keys differ.
TwoKeys ==
    /\ hopper[1].status = "ready"
    /\ hopper[2].status = "ready"
    /\ hopper[1].hop_range = hopper[2].hop_range
    /\ hopper[1].hop_spacing = hopper[2].hop_spacing
    /\ hopper[1].secret_key # hopper[2].secret_key

RetryIsDue(n) ==
    /\ messages[n].status = "sent"
    /\ ~IsExpired(messages[n], now)
    /\ messages[n].attempts < MAX_ATTEMPTS
    /\ now - messages[n].last_attempt >= GetBackoffDelay(messages[n])

\* C24: a message that was transmitted (SENT) and not acknowledged is offered
\* again by get_next_message once its backoff delay has elapsed, as long as
\* it is not expired and was attempted less than 10 times: a call made when
\* its retry is due and no other message is PENDING returns it.
C24_UnackedIsOfferedAgain ==
    \A n \in Rows(messages) :
        /\ RetryIsDue(n)
        /\ \A o \in Rows(messages) : messages[o].status # "pending"
        => n \in GetNextMessage(messages, now, now)

\* C25: whenever get_next_message returns a message, the message is PENDING
\* and unexpired, and no other PENDING unexpired message of the queue has a
\* higher priority, or the same priority and an earlier created_at.
C25_NextIsHighestPriorityOldest ==
    [][ \A p \in Messengers :
          messenger[p].pc = "idle" /\ messenger'[p].pc = "got" =>
             /\ messages'[messenger'[p].message].status = "pending"
             /\ ~IsExpired(messages'[messenger'[p].message], now')
             /\ \A o \in Rows(messages') :
                   messages'[o].status = "pending" /\ ~IsExpired(messages'[o], now') =>
                      /\ messages'[o].priority <= messages'[messenger'[p].message].priority
                      /\ messages'[o].priority = messages'[messenger'[p].message].priority
                            => messages'[o].created_at
                                  >= messages'[messenger'[p].message].created_at ]_vars

\* A messenger holds the URGENT message get_next_message returned, while an
\* older NORMAL message is PENDING.
C25_Witness ==
    \E p \in Messengers, o \in Rows(messages) :
        /\ messenger[p].pc = "got"
        /\ messages[messenger[p].message].status = "pending"
        /\ messages[messenger[p].message].priority = MessagePriority.URGENT
        /\ messages[o].status = "pending"
        /\ messages[o].priority = MessagePriority.NORMAL
        /\ messages[o].created_at < messages[messenger[p].message].created_at
        /\ ~IsExpired(messages[o], now)

\* C26: when process_queue keeps being invoked and time advances past the
\* TTL, every enqueued message eventually is DELIVERED, FAILED or EXPIRED: no
\* message stays PENDING or SENT forever.
C26_EveryMessageGetsAnOutcome ==
    \A n \in 1..MaxMessages :
        (n \in Rows(messages))
            ~> (n \in Rows(messages)
                /\ messages[n].status \in {"delivered", "failed", "expired"})

\* A message that was transmitted, never acknowledged, and is EXPIRED.
C26_Witness ==
    \E n \in Rows(messages) :
        /\ messages[n].status = "expired"
        /\ messages[n].attempts = 1
        /\ messages[n].delivered_at = 0

\* C29: when two messengers run process_queue concurrently on one queue, a
\* message is handed out to at most one of them per attempt (never do both
\* hold the same message between get_next_message and mark_sent), and its
\* attempts counter is the number of times it was transmitted.
C29_HandedOutToOneMessenger ==
    /\ \A p, q \in Messengers :
          p # q /\ messenger[p].pc = "got" /\ messenger[q].pc = "got"
             => messenger[p].message # messenger[q].message
    /\ \A n \in Rows(messages) : messages[n].attempts = transmitted[n]

\* C30: a message that is DELIVERED or FAILED keeps its status in every
\* operation of the queue, the expiry sweep included; a message that is
\* EXPIRED is never handed out by get_next_message and never becomes
\* DELIVERED.
C30_TerminalStatesAreFinal ==
    [][ \A n \in Rows(messages) :
          /\ messages[n].status \in {"delivered", "failed"}
                => messages'[n].status = messages[n].status
          /\ messages[n].status = "expired"
                => /\ messages'[n].status # "delivered"
                   /\ \A p \in Messengers :
                         ~(/\ messenger[p].pc = "idle"
                           /\ messenger'[p].pc = "got"
                           /\ messenger'[p].message = n) ]_vars

====
